---- MODULE Spec2Model ----
(***************************************************************************)
(* A model of modules/zway.py: the Server class that wraps the ZWay JSON   *)
(* API.  The client object (session cookie, device registry), the server's *)
(* device tree it scans, and one action per public method.                 *)
(*                                                                         *)
(* Python strings are sequences of one-character strings, so that          *)
(* "{}.{}".format, float(), int(), str.isdigit, strip and replace are      *)
(* computed and not assumed.  A URL is the sequence of the pieces that     *)
(* were concatenated to build it.                                          *)
(***************************************************************************)
EXTENDS Integers, Sequences, FiniteSets, TLC

VARIABLES
    client,     \* "absent" before Server(...), then "alive" or "failed"
    cookie,     \* self.cookie: "None" or "jar" (the login response's cookies)
    emptyCreds, \* whether Server(...) was given username == "" and password == ""
    devices,    \* self.devices: device id -> record
    tree,       \* the server's device tree, as the parsed JSON iterates
    op,         \* the method call that just ended: name, argument, requests, outcome
    scanned,    \* <<registry>> of the latest completed scan, <<>> before any
    attempts,   \* one _make_request call: the outcome of each attempt so far
    reqRet      \* that call: "running", "page", the exception raised, "None"

vars == <<client, cookie, emptyCreds, devices, tree, op, scanned, attempts, reqRet>>

-----------------------------------------------------------------------------
(* Strings *)

Digits == <<"0", "1", "2", "3", "4", "5", "6", "7", "8", "9">>

DigitSet == {Digits[i] : i \in 1..10}

DigitVal(c) == (CHOOSE i \in 1..10 : Digits[i] = c) - 1

RECURSIVE Pow10(_)
Pow10(n) == IF n = 0 THEN 1 ELSE 10 * Pow10(n - 1)

\* str(n) and "{}".format(n) for an int n >= 0.
RECURSIVE Str(_)
Str(n) == IF n < 10 THEN <<Digits[n + 1]>> ELSE Str(n \div 10) \o <<Digits[(n % 10) + 1]>>

\* The value of a string of decimal digits ("" counts 0).
RECURSIVE DigitsVal(_)
DigitsVal(s) ==
    IF s = <<>> THEN 0
    ELSE 10 * DigitsVal(SubSeq(s, 1, Len(s) - 1)) + DigitVal(s[Len(s)])

\* str.isdigit(): non-empty and every character a digit.
isdigit(s) == Len(s) > 0 /\ \A i \in 1..Len(s) : s[i] \in DigitSet

\* Where the first "." of s is, Len(s) + 1 when it has none.
DotAt(s) ==
    IF \E i \in 1..Len(s) : s[i] = "."
    THEN CHOOSE i \in 1..Len(s) : s[i] = "." /\ \A j \in 1..(i - 1) : s[j] # "."
    ELSE Len(s) + 1

IntPart(s) == SubSeq(s, 1, DotAt(s) - 1)

FracPart(s) == SubSeq(s, DotAt(s) + 1, Len(s))

\* What float() accepts here: digits, optionally a "." and digits, not both empty.
IsFloatText(s) ==
    /\ \A i \in 1..Len(IntPart(s)) : IntPart(s)[i] \in DigitSet
    /\ \A i \in 1..Len(FracPart(s)) : FracPart(s)[i] \in DigitSet
    /\ Len(IntPart(s)) + Len(FracPart(s)) > 0

\* float(s), as the fraction num / den: float("48.10") is 4810 / 100.
float(s) ==
    [num |-> DigitsVal(IntPart(s)) * Pow10(Len(FracPart(s))) + DigitsVal(FracPart(s)),
     den |-> Pow10(Len(FracPart(s)))]

FloatLeq(a, b) == a.num * b.den <= b.num * a.den

\* int(x) of a float x >= 0: truncation.
int(x) == x.num \div x.den

\* "{}.{}".format(device_id_base, device_count)
FormatId(device_id_base, device_count) == device_id_base \o <<".">> \o Str(device_count)

\* str.strip(): leading and trailing spaces removed.
RECURSIVE lstrip(_)
lstrip(s) == IF s # <<>> /\ s[1] = " " THEN lstrip(Tail(s)) ELSE s

RECURSIVE rstrip(_)
rstrip(s) ==
    IF s # <<>> /\ s[Len(s)] = " " THEN rstrip(SubSeq(s, 1, Len(s) - 1)) ELSE s

strip(s) == rstrip(lstrip(s))

\* str.replace(' ', '_')
replace(s) == [i \in 1..Len(s) |-> IF s[i] = " " THEN "_" ELSE s[i]]

\* A byte that is not valid UTF-8: unicode + str decodes the str with the
\* default encoding (set to UTF8 on import) and raises UnicodeDecodeError on it.
BadByte == "\\xff"

Decodable(s) == \A i \in 1..Len(s) : s[i] # BadByte

-----------------------------------------------------------------------------
(* _make_request's retry loop *)

num_attempts == 10

\* What requests.get can do in one attempt.  requests.exceptions.ConnectTimeout
\* is a subclass of both ConnectionError and Timeout, ReadTimeout of Timeout only.
Outcomes == {"ok", "ConnectionError", "ReadTimeout", "ConnectTimeout"}

IsConnectionError(o) == o \in {"ConnectionError", "ConnectTimeout"}

IsTimeout(o) == o \in {"ReadTimeout", "ConnectTimeout"}

ConnLost == "server did not respond, connection is lost"

TimedOut == "server Timeout"

\* One pass of the loop body with loop index attempt (0-based) and the attempt's
\* outcome o: "page" (return page), the exception raised, or "running" (the
\* exception was swallowed and the loop goes on).  The except clauses are tried
\* in the order written.
AttemptStep(attempt, o) ==
    IF IsConnectionError(o)
    THEN IF attempt = num_attempts - 1 THEN ConnLost ELSE "running"
    ELSE IF IsTimeout(o)
    THEN IF attempt = num_attempts - 1 THEN TimedOut ELSE "running"
    ELSE "page"

\* The loop run on a script of outcomes from attempt on: [ret, n] with n the
\* number of attempts made.  A loop that ends without return or raise makes the
\* function return None.
RECURSIVE RequestLoop(_, _)
RequestLoop(script, attempt) ==
    IF attempt >= num_attempts THEN [ret |-> "None", n |-> attempt]
    ELSE IF attempt >= Len(script) THEN [ret |-> "running", n |-> attempt]
    ELSE LET r == AttemptStep(attempt, script[attempt + 1])
         IN IF r = "running" THEN RequestLoop(script, attempt + 1)
            ELSE [ret |-> r, n |-> attempt + 1]

\* num_attempts attempts that all end the same way.
Ten(o) == [i \in 1..num_attempts |-> o]

-----------------------------------------------------------------------------
(* The server: its device tree and what it answers *)

MaxChannels == 3

S(c) == <<c>>

\* The data channels a tree is made of here: base device id, instance, command
\* class, key under the class's data object and, for a sensor channel, what
\* ...data[key].sensorTypeString.value returns.
ChannelPool ==
    { [base |-> <<"2">>, inst |-> S("0"), cc |-> <<"4", "8">>, key |-> S("1"),
       sensorTypeString |-> <<"T">>],
      [base |-> <<"2">>, inst |-> S("0"), cc |-> <<"4", "9">>, key |-> S("1"),
       sensorTypeString |-> <<" ", "P", " ", "W", " ">>],
      [base |-> <<"2">>, inst |-> S("1"), cc |-> <<"4", "9">>, key |-> S("3"),
       sensorTypeString |-> <<"C", BadByte>>],
      [base |-> <<"2">>, inst |-> S("0"), cc |-> <<"4", "9">>, key |-> <<"n", "a", "m", "e">>,
       sensorTypeString |-> <<>>],
      [base |-> <<"2">>, inst |-> S("0"), cc |-> <<"1", "2", "8">>, key |-> S("0"),
       sensorTypeString |-> <<"B">>],
      [base |-> <<"1", "0">>, inst |-> S("0"), cc |-> <<"5", "0">>, key |-> S("1"),
       sensorTypeString |-> <<"T">>] }

\* The ranges <<lo, hi>> of the maximal runs of equal consecutive keys.
Blocks(keys) ==
    LET starts == {i \in 1..Len(keys) : i = 1 \/ keys[i] # keys[i - 1]}
        nth(j) == CHOOSE i \in starts : Cardinality({x \in starts : x < i}) = j - 1
    IN [j \in 1..Cardinality(starts) |->
            <<nth(j), IF j < Cardinality(starts) THEN nth(j + 1) - 1 ELSE Len(keys)>>]

DataOf(chs) == [d \in 1..Len(chs) |->
    [key |-> chs[d].key, sensorTypeString |-> chs[d].sensorTypeString]]

ClassesOf(chs) ==
    LET bl == Blocks([i \in 1..Len(chs) |-> chs[i].cc])
    IN [j \in 1..Len(bl) |->
            [cc |-> chs[bl[j][1]].cc, data |-> DataOf(SubSeq(chs, bl[j][1], bl[j][2]))]]

InstancesOf(chs) ==
    LET bl == Blocks([i \in 1..Len(chs) |-> chs[i].inst])
    IN [j \in 1..Len(bl) |->
            [num |-> chs[bl[j][1]].inst,
             commandClasses |-> ClassesOf(SubSeq(chs, bl[j][1], bl[j][2]))]]

\* The nested tree (a JSON object is the sequence of its members, in the order
\* the parsed dict iterates) of a sequence of channels.
TreeOf(chs) ==
    LET bl == Blocks([i \in 1..Len(chs) |-> chs[i].base])
    IN [j \in 1..Len(bl) |->
            [id |-> chs[bl[j][1]].base,
             instances |-> InstancesOf(SubSeq(chs, bl[j][1], bl[j][2]))]]

\* A JSON object has each key once: equal keys are neighbours at every level.
WellFormed(chs) ==
    /\ \A i, j \in 1..Len(chs) : i # j => chs[i] # chs[j]
    /\ \A i, j, k \in 1..Len(chs) : (i < j /\ j < k) =>
        /\ chs[i].base = chs[k].base => chs[j].base = chs[i].base
        /\ (chs[i].base = chs[k].base /\ chs[i].inst = chs[k].inst)
              => chs[j].inst = chs[i].inst
        /\ (chs[i].base = chs[k].base /\ chs[i].inst = chs[k].inst /\ chs[i].cc = chs[k].cc)
              => chs[j].cc = chs[i].cc

Trees ==
    {TreeOf(chs) : chs \in {c \in UNION {[1..n -> ChannelPool] : n \in 0..MaxChannels} :
                                WellFormed(c)}}

\* Every data channel of a tree, with its coordinates.
Channels(t) ==
    UNION {UNION {UNION {
        {[base |-> t[b].id, inst |-> t[b].instances[i].num,
          cc |-> t[b].instances[i].commandClasses[c].cc,
          key |-> t[b].instances[i].commandClasses[c].data[d].key,
          sensorTypeString |-> t[b].instances[i].commandClasses[c].data[d].sensorTypeString]
         : d \in 1..Len(t[b].instances[i].commandClasses[c].data)}
        : c \in 1..Len(t[b].instances[i].commandClasses)}
        : i \in 1..Len(t[b].instances)}
        : b \in 1..Len(t)}

\* self.base_url, "http://{}:{}/ZWaveAPI/".format(host, port)
base_url == <<"http://host:port/ZWaveAPI/">>

TypeCommand(device, instance_num, command_class, data_num) ==
    <<"Run/devices[">> \o Str(device) \o <<"].instances[">> \o instance_num
        \o <<"].commandClasses[">> \o command_class \o <<"].data[">> \o data_num
        \o <<"].sensorTypeString.value">>

GetCommand(device, instance_num, command_class) ==
    <<"Run/devices[">> \o Str(device) \o <<"].instances[">> \o instance_num
        \o <<"].commandClasses[">> \o command_class \o <<"].Get(sensorType=-1)">>

ValueCommand(device, instance_num, command_class, data_num, suffix) ==
    <<"Run/devices[">> \o Str(device) \o <<"].instances[">> \o instance_num
        \o <<"].commandClasses[">> \o command_class \o <<"].data[">> \o data_num
        \o <<"].">> \o suffix

BatteryCommand(device_id) ==
    <<"Run/devices[">> \o device_id \o <<"].instances[0].Battery.data.last.value">>

\* The live value the server holds for a channel, as text.
ValueText(ch) ==
    IF ch.cc = <<"4", "8">> THEN <<"t", "r", "u", "e">> ELSE <<"2", "1", ".", "5">>

SuffixOf(ch) == IF ch.cc = <<"4", "8">> THEN <<"level.value">> ELSE <<"val.value">>

NotFound == [json |-> "none", content |-> <<"4", "0", "4">>]

\* The server's answer to GET url.  json names the document .json() parses
\* ("none": the body is not JSON), content is the body as .content gives it.
Serve(url) ==
    LET chs == Channels(tree)
        dev(ch) == DigitsVal(ch.base)
    IN IF url = base_url \o <<"Data">> THEN [json |-> "Data", content |-> <<>>]
       ELSE IF url = base_url \o <<"Run/devices">> THEN [json |-> "devices", content |-> <<>>]
       ELSE IF \E ch \in chs : url = base_url \o TypeCommand(dev(ch), ch.inst, ch.cc, ch.key)
       THEN [json |-> "none",
             content |-> (CHOOSE ch \in chs :
                 url = base_url \o TypeCommand(dev(ch), ch.inst, ch.cc, ch.key)).sensorTypeString]
       ELSE IF \E ch \in chs : url = base_url \o GetCommand(dev(ch), ch.inst, ch.cc)
       THEN [json |-> "none", content |-> <<"n", "u", "l", "l">>]
       ELSE IF \E ch \in chs :
                  url = base_url \o ValueCommand(dev(ch), ch.inst, ch.cc, ch.key, SuffixOf(ch))
       THEN [json |-> "none",
             content |-> ValueText(CHOOSE ch \in chs :
                 url = base_url \o ValueCommand(dev(ch), ch.inst, ch.cc, ch.key, SuffixOf(ch)))]
       ELSE IF \E ch \in chs, n \in 0..MaxChannels :
                  url = base_url \o BatteryCommand(FormatId(ch.base, n))
       THEN [json |-> "none", content |-> <<"8", "0">>]
       ELSE NotFound

-----------------------------------------------------------------------------
(* The client's methods, as functions of the call's context *)

\* {}
EmptyDict == <<>>

\* d[k] = v
Put(d, k, v) == [x \in DOMAIN d \cup {k} |-> IF x = k THEN v ELSE d[x]]

NoPage == [json |-> "none", content |-> <<>>]

\* A call's context: self.cookie and self.devices, the requests sent so far,
\* the exception raised ("": none), the page of the last request, the value
\* returned, and update_devices' device_count.
Context(cook, devs) ==
    [cookie |-> cook, devices |-> devs, sent |-> <<>>, exc |-> "",
     page |-> NoPage, ret |-> <<>>, count |-> 0]

\* Statement sequencing: F applied to the value of v, v evaluated once.
Then(v, F(_)) == CHOOSE r \in {F(x) : x \in {v}} : TRUE

Raise(ctx, e) == [ctx EXCEPT !.exc = e]

\* What the network does to the requests of one call: the k-th request sent
\* meets the script net[k] of attempt outcomes.
MaxRequests == MaxChannels + 3

Net(failAt, script) == [k \in 1..MaxRequests |-> IF k = failAt THEN script ELSE <<"ok">>]

\* The scripts a call's request can meet besides a first-attempt success: a
\* retry that succeeds, a retry exhausted by connection errors, one exhausted
\* by timeouts.
FailScripts == {<<"ReadTimeout", "ok">>, Ten("ConnectionError"), Ten("ReadTimeout")}

\* The networks of a call that sends up to n requests: none disturbed, or one.
Nets(n) == {Net(0, <<"ok">>)} \cup {Net(k, sc) : k \in 1..n, sc \in FailScripts}

\* requests.get(self.base_url + command, ...) under the retry loop; cookies are
\* sent unless self.cookie == None.
_make_request(ctx, command, net) ==
    LET url == base_url \o command
        Sent == Append(ctx.sent, [method |-> "GET", url |-> url,
                                  cookies |-> ctx.cookie # "None"])
        Done(r) ==
            IF r.ret = "page"
            THEN [ctx EXCEPT !.sent = Sent, !.exc = "", !.page = Serve(url)]
            ELSE [ctx EXCEPT !.sent = Sent, !.exc = r.ret, !.page = NoPage]
    IN Then(RequestLoop(net[Len(ctx.sent) + 1], 0), Done)

device_type(ctx, device_id, net) ==
    IF ~IsFloatText(device_id) THEN Raise(ctx, "ValueError")
    ELSE IF device_id \notin DOMAIN ctx.devices THEN Raise(ctx, "KeyError")
    ELSE LET d == ctx.devices[device_id].data
             Content(c) == IF c.exc # "" THEN c ELSE [c EXCEPT !.ret = c.page.content]
         IN Then(_make_request(ctx, TypeCommand(int(float(device_id)), d.instance_num,
                                                d.command_class, d.data_num), net),
                 Content)

acceptedClasses == {<<"4", "8">>, <<"4", "9">>, <<"5", "0">>}

\* The body of the innermost loop for data_num = data[i].key, then the rest of
\* the loop.  The entry is stored before its type is requested and before its
\* name is built; the except branch's continue leaves it stored without a name.
RECURSIVE ScanData(_, _, _, _, _, _, _)
ScanData(ctx, device_id_base, instance_num, commandClass, data, i, net) ==
    IF ctx.exc # "" \/ i > Len(data) THEN ctx
    ELSE IF ~isdigit(data[i].key)
    THEN ScanData(ctx, device_id_base, instance_num, commandClass, data, i + 1, net)
    ELSE LET data_dict ==
                 [instance_num |-> instance_num, command_class |-> commandClass,
                  data_num |-> data[i].key,
                  url_suffix |-> IF commandClass = <<"4", "8">> THEN <<"level.value">>
                                 ELSE <<"val.value">>,
                  type |-> IF commandClass = <<"4", "8">> THEN "bool" ELSE "double"]
             device_id == FormatId(device_id_base, ctx.count)
             Rest(c) ==
                 ScanData(c, device_id_base, instance_num, commandClass, data, i + 1, net)
             Name(c) ==
                 LET dtype == replace(strip(c.ret))
                     name == device_id_base \o <<"_">> \o dtype
                 IN IF c.exc # "" THEN c
                    ELSE IF Decodable(dtype)
                    THEN Then([c EXCEPT !.devices =
                                  Put(@, device_id, [data |-> data_dict, name |-> name])],
                              Rest)
                    ELSE Rest(c)
             Type(c) == Then(device_type(c, device_id, net), Name)
         IN Then([ctx EXCEPT !.devices = Put(@, device_id, [data |-> data_dict]),
                             !.count = @ + 1],
                 Type)

RECURSIVE ScanClasses(_, _, _, _, _, _)
ScanClasses(ctx, device_id_base, instance_num, commandClasses, i, net) ==
    LET Rest(c) == ScanClasses(c, device_id_base, instance_num, commandClasses, i + 1, net)
    IN IF ctx.exc # "" \/ i > Len(commandClasses) THEN ctx
       ELSE IF commandClasses[i].cc \in acceptedClasses
       THEN Then(ScanData(ctx, device_id_base, instance_num, commandClasses[i].cc,
                          commandClasses[i].data, 1, net),
                 Rest)
       ELSE Rest(ctx)

\* ScanInstances with device_count = 0 moved into the loop over the instances.
RECURSIVE ScanInstances_restart(_, _, _, _, _)
ScanInstances_restart(ctx, device_id_base, instances, i, net) ==
    LET Rest(c) == ScanInstances_restart(c, device_id_base, instances, i + 1, net)
        Classes(c) == ScanClasses(c, device_id_base, instances[i].num,
                                  instances[i].commandClasses, 1, net)
    IN IF ctx.exc # "" \/ i > Len(instances) THEN ctx
       ELSE Then(Then([ctx EXCEPT !.count = 0], Classes), Rest)

RECURSIVE ScanInstances(_, _, _, _, _)
ScanInstances(ctx, device_id_base, instances, i, net) ==
    LET Rest(c) == ScanInstances(c, device_id_base, instances, i + 1, net)
    IN IF ctx.exc # "" \/ i > Len(instances) THEN ctx
       ELSE Then(ScanClasses(ctx, device_id_base, instances[i].num,
                             instances[i].commandClasses, 1, net),
                 Rest)

\* for device_id_base in devices_page: device_count = 0 ...
RECURSIVE ScanBases(_, _, _, _)
ScanBases(ctx, devices_page, i, net) ==
    LET Rest(c) == ScanBases(c, devices_page, i + 1, net)
        Instances(c) ==
            ScanInstances(c, devices_page[i].id, devices_page[i].instances, 1, net)
    IN IF ctx.exc # "" \/ i > Len(devices_page) THEN ctx
       ELSE Then(Then([ctx EXCEPT !.count = 0], Instances), Rest)

\* update_devices without its first statement: the scan adds to the registry.
update_devices_merge(ctx, net) ==
    LET Page(c) ==
            IF c.exc # "" THEN c
            ELSE IF c.page.json # "devices" THEN Raise(c, "ValueError")
            ELSE ScanBases(c, tree, 1, net)
    IN Then(_make_request(ctx, <<"Run/devices">>, net), Page)

update_devices(ctx, net) ==
    LET Page(c) ==
            IF c.exc # "" THEN c
            ELSE IF c.page.json # "devices" THEN Raise(c, "ValueError")
            ELSE ScanBases(c, tree, 1, net)
        Fetch(c) == Then(_make_request(c, <<"Run/devices">>, net), Page)
    IN Then([ctx EXCEPT !.devices = EmptyDict], Fetch)

\* The sort key of device_IDs by the two numbers of the id instead of float.
PartsLeq(a, b) ==
    \/ DigitsVal(IntPart(a)) < DigitsVal(IntPart(b))
    \/ /\ DigitsVal(IntPart(a)) = DigitsVal(IntPart(b))
       /\ DigitsVal(FracPart(a)) <= DigitsVal(FracPart(b))

\* key=float: whether a sorts no later than b.
KeyLeq(a, b) == FloatLeq(float(a), float(b))

\* sorted() is stable: k goes after every element that sorts no later.
RECURSIVE Insert(_, _)
Insert(s, k) ==
    IF s = <<>> THEN <<k>>
    ELSE IF KeyLeq(s[Len(s)], k) THEN Append(s, k)
    ELSE Append(Insert(SubSeq(s, 1, Len(s) - 1), k), s[Len(s)])

RECURSIVE sorted(_)
sorted(keys) ==
    LET Last(s) == Insert(s, keys[Len(keys)])
    IN IF keys = <<>> THEN <<>>
       ELSE Then(sorted(SubSeq(keys, 1, Len(keys) - 1)), Last)

\* sorted(self.devices.keys(), key=float), keys being the dict's iteration order.
device_IDs(ctx, keys) ==
    IF \E i \in 1..Len(keys) : ~IsFloatText(keys[i]) THEN Raise(ctx, "ValueError")
    ELSE [ctx EXCEPT !.ret = sorted(keys)]

SoftwareRevision == <<"v", "2">>

software_version(ctx, net) ==
    LET command == base_url \o <<"Data">>
        Version(c) ==
            IF c.exc # "" THEN c
            ELSE IF c.page.json # "Data" THEN Raise(c, "ValueError")
            ELSE [c EXCEPT !.ret = SoftwareRevision]
    IN Then(_make_request(ctx, command, net), Version)

battery_level(ctx, device_id, net) ==
    LET Percent(c) ==
            IF c.exc # "" THEN c
            ELSE IF ~isdigit(c.page.content) THEN Raise(c, "ValueError")
            ELSE [c EXCEPT !.ret = <<DigitsVal(c.page.content)>>]
    IN IF device_id \notin DOMAIN ctx.devices THEN Raise(ctx, "KeyError")
       ELSE Then(_make_request(ctx, BatteryCommand(device_id), net), Percent)

\* get_data with the Get trigger sent before the registry is consulted.
get_data_trigger_first(ctx, device_id, net) ==
    LET Lookup(c) ==
            IF c.exc # "" THEN c
            ELSE IF device_id \notin DOMAIN c.devices THEN Raise(c, "KeyError")
            ELSE [c EXCEPT !.ret = <<float(<<"0">>)>>]
    IN Then(_make_request(ctx, GetCommand(0, <<"0">>, <<"4", "9">>), net), Lookup)

get_data(ctx, device_id, net) ==
    IF device_id \notin DOMAIN ctx.devices THEN Raise(ctx, "KeyError")
    ELSE IF ~IsFloatText(device_id) THEN Raise(ctx, "ValueError")
    ELSE LET d == ctx.devices[device_id].data
             device == int(float(device_id))
             Decode(c) ==
                 LET data == c.page.content
                 IN IF c.exc # "" THEN c
                    ELSE IF d.type = "bool"
                    THEN [c EXCEPT !.ret = <<IF data = <<"t", "r", "u", "e">>
                                             THEN float(<<"1">>) ELSE float(<<"0">>)>>]
                    ELSE IF ~IsFloatText(data) THEN Raise(c, "ValueError")
                    ELSE [c EXCEPT !.ret = <<float(data)>>]
             Retrieve(c) ==
                 IF c.exc # "" THEN c
                 ELSE Then(_make_request(c, ValueCommand(device, d.instance_num,
                               d.command_class, d.data_num, d.url_suffix), net),
                           Decode)
         IN Then(_make_request(ctx, GetCommand(device, d.instance_num, d.command_class),
                               net),
                 Retrieve)

device_name(ctx, device_id) ==
    IF device_id \notin DOMAIN ctx.devices THEN Raise(ctx, "KeyError")
    ELSE IF "name" \notin DOMAIN ctx.devices[device_id] THEN Raise(ctx, "KeyError")
    ELSE [ctx EXCEPT !.ret = ctx.devices[device_id].name]

-----------------------------------------------------------------------------
(* Server(host, port, device_dict, username, password) *)

\* What a caller can pass as username or password: the str "" (one object in
\* the interpreter, the one the literal "" names), the unicode u"" (equal to
\* "", another object), or a non-empty string.
StrKinds == {"str_empty", "unicode_empty", "nonempty"}

\* x == ""
IsEmpty(x) == x \in {"str_empty", "unicode_empty"}

\* x is ""
IsTheEmptyLiteral(x) == x = "str_empty"

loginpage == <<"http://host:port/ZAutomation/api/v1/login">>

\* requests.post raises requests.ConnectionError when the host cannot be reached.
generate_session(ctx, username, password, reachable) ==
    IF IsTheEmptyLiteral(username) /\ IsTheEmptyLiteral(password)
    THEN [ctx EXCEPT !.cookie = "None"]
    ELSE IF reachable
    THEN [ctx EXCEPT !.cookie = "jar",
                     !.sent = Append(@, [method |-> "POST", url |-> loginpage,
                                         cookies |-> FALSE])]
    ELSE [ctx EXCEPT !.exc = "requests.ConnectionError",
                     !.sent = Append(@, [method |-> "POST", url |-> loginpage,
                                         cookies |-> FALSE])]

Unreachable == "Connection could not be established: destination host unreachable"

AuthRequired == "Connection could not be established: authentication required"

Generic == "Connection could not be established"

\* The except clauses of the connection check, in the order written.
Cause(exc) ==
    IF exc = "requests.ConnectionError" THEN Unreachable
    ELSE IF exc = "ValueError" THEN AuthRequired
    ELSE Generic

\* __init__.  The server answers "Data" with JSON when it accepts the session
\* (jsonOk), with its login page otherwise.
Construct(username, password, device_dict, net, reachable, jsonOk) ==
    LET Devices(c) ==
            IF c.exc # "" THEN Raise(c, Cause(c.exc))
            ELSE IF c.page.json # "Data" \/ ~jsonOk THEN Raise(c, Cause("ValueError"))
            ELSE IF device_dict = EmptyDict THEN update_devices(c, net)
            ELSE [c EXCEPT !.devices = device_dict]
        Check(c) ==
            IF c.exc # "" THEN Raise(c, Cause(c.exc))
            ELSE Then(_make_request(c, <<"Data">>, net), Devices)
    IN Then(generate_session(Context("unset", EmptyDict), username, password, reachable),
            Check)

-----------------------------------------------------------------------------
(* The state machine *)

MaxPreset == 2

PresetKeys ==
    { <<"4", "8", ".", "1", "0">>, <<"4", "8", ".", "2">>, <<"7", ".", "0">> }

\* A record as save_devices_to_file wrote it.
PresetRecord(k) ==
    [data |-> [instance_num |-> <<"0">>, command_class |-> <<"4", "9">>,
               data_num |-> <<"1">>, url_suffix |-> <<"val.value">>, type |-> "double"],
     name |-> IntPart(k) \o <<"_", "T">>]

\* The device_dict arguments: {} (scan) or a dictionary of up to MaxPreset ids.
Presets ==
    {[k \in ks |-> PresetRecord(k)] :
        ks \in {x \in SUBSET PresetKeys : Cardinality(x) <= MaxPreset}}

\* Ids no registry of the model holds.
UnknownIds == {<<"9", ".", "9">>}

\* The orders in which a dict with these keys can iterate.
Orders(ks) ==
    {f \in [1..Cardinality(ks) -> ks] : \A i, j \in 1..Cardinality(ks) : i # j => f[i] # f[j]}

NoCall ==
    [name |-> "", arg |-> <<>>, sent |-> <<>>, exc |-> "", ret |-> <<>>,
     pre |-> EmptyDict, cookie0 |-> "None", prevScan |-> <<>>]

Call(name, arg, c) ==
    [name |-> name, arg |-> arg, sent |-> c.sent, exc |-> c.exc, ret |-> c.ret,
     pre |-> devices, cookie0 |-> cookie, prevScan |-> scanned]

Init ==
    /\ client = "absent"
    /\ cookie = "None"
    /\ emptyCreds = TRUE
    /\ devices = EmptyDict
    /\ tree \in Trees
    /\ op = NoCall
    /\ scanned = <<>>
    /\ attempts = <<>>
    /\ reqRet = "running"

\* An object exists only if __init__ returns.
New ==
    /\ client = "absent"
    /\ \E username \in StrKinds, password \in StrKinds, device_dict \in Presets,
          host \in {"up", "unreachable"}, jsonOk \in BOOLEAN, upNet \in Nets(MaxRequests) :
        /\ host = "unreachable" => (jsonOk /\ upNet = Net(0, <<"ok">>))
        /\ \E c \in {Construct(username, password, device_dict,
                               IF host = "unreachable"
                               THEN [k \in 1..MaxRequests |-> Ten("ConnectionError")]
                               ELSE upNet,
                               host = "up", jsonOk)} :
              /\ client' = IF c.exc = "" THEN "alive" ELSE "failed"
              /\ cookie' = IF c.exc = "" THEN c.cookie ELSE "None"
              /\ devices' = IF c.exc = "" THEN c.devices ELSE EmptyDict
              /\ emptyCreds' = (IsEmpty(username) /\ IsEmpty(password))
              /\ scanned' = IF c.exc = "" /\ device_dict = EmptyDict
                            THEN <<c.devices>> ELSE <<>>
              /\ op' = [Call("__init__",
                             [username |-> username, password |-> password,
                              host |-> host, jsonOk |-> jsonOk,
                              answered |-> \E i \in 1..Len(c.sent) :
                                  /\ c.sent[i].url = base_url \o <<"Data">>
                                  /\ host = "up"
                                  /\ RequestLoop(upNet[i], 0).ret = "page"], c)
                          EXCEPT !.ret = <<>>]
    /\ UNCHANGED <<tree, attempts, reqRet>>

Call_update_devices ==
    /\ client = "alive"
    /\ op = NoCall
    /\ \E net \in Nets(MaxChannels + 1) :
        \E c \in {update_devices(Context(cookie, devices), net)} :
           /\ devices' = c.devices
           /\ scanned' = IF c.exc = "" THEN <<c.devices>> ELSE scanned
           /\ op' = [Call("update_devices", <<>>, c) EXCEPT !.ret = <<>>]
    /\ UNCHANGED <<client, cookie, emptyCreds, tree, attempts, reqRet>>

Call_device_IDs ==
    /\ client = "alive"
    /\ op = NoCall
    /\ \E keys \in Orders(DOMAIN devices) :
        \E c \in {device_IDs(Context(cookie, devices), keys)} :
           /\ devices' = c.devices
           /\ op' = Call("device_IDs", <<>>, c)
    /\ UNCHANGED <<client, cookie, emptyCreds, tree, scanned, attempts, reqRet>>

Call_software_version ==
    /\ client = "alive"
    /\ op = NoCall
    /\ \E net \in Nets(1) :
        \E c \in {software_version(Context(cookie, devices), net)} :
           /\ devices' = c.devices
           /\ op' = Call("software_version", <<>>, c)
    /\ UNCHANGED <<client, cookie, emptyCreds, tree, scanned, attempts, reqRet>>

Call_battery_level ==
    /\ client = "alive"
    /\ op = NoCall
    /\ \E device_id \in DOMAIN devices \cup UnknownIds, net \in Nets(1) :
        \E c \in {battery_level(Context(cookie, devices), device_id, net)} :
           /\ devices' = c.devices
           /\ op' = Call("battery_level", device_id, c)
    /\ UNCHANGED <<client, cookie, emptyCreds, tree, scanned, attempts, reqRet>>

Call_get_data ==
    /\ client = "alive"
    /\ op = NoCall
    /\ \E device_id \in DOMAIN devices \cup UnknownIds, net \in Nets(2) :
        \E c \in {get_data(Context(cookie, devices), device_id, net)} :
           /\ devices' = c.devices
           /\ op' = Call("get_data", device_id, c)
    /\ UNCHANGED <<client, cookie, emptyCreds, tree, scanned, attempts, reqRet>>

Call_device_type ==
    /\ client = "alive"
    /\ op = NoCall
    /\ \E device_id \in DOMAIN devices \cup UnknownIds, net \in Nets(1) :
        \E c \in {device_type(Context(cookie, devices), device_id, net)} :
           /\ devices' = c.devices
           /\ op' = Call("device_type", device_id, c)
    /\ UNCHANGED <<client, cookie, emptyCreds, tree, scanned, attempts, reqRet>>

Call_device_name ==
    /\ client = "alive"
    /\ op = NoCall
    /\ \E device_id \in DOMAIN devices \cup UnknownIds :
        \E c \in {device_name(Context(cookie, devices), device_id)} :
           /\ devices' = c.devices
           /\ op' = Call("device_name", device_id, c)
    /\ UNCHANGED <<client, cookie, emptyCreds, tree, scanned, attempts, reqRet>>

\* The caller takes the result of the call; the methods are synchronous and
\* the client is used from one thread, so the next call starts after that.
Return ==
    /\ op # NoCall
    /\ op' = NoCall
    /\ UNCHANGED <<client, cookie, emptyCreds, devices, tree, scanned, attempts, reqRet>>

Next ==
    \/ New
    \/ Return
    \/ Call_update_devices
    \/ Call_device_IDs
    \/ Call_software_version
    \/ Call_battery_level
    \/ Call_get_data
    \/ Call_device_type
    \/ Call_device_name

Spec == Init /\ [][Next]_vars

-----------------------------------------------------------------------------
(* One _make_request call, attempt by attempt *)

InitRetry ==
    /\ client = "alive"
    /\ cookie = "None"
    /\ emptyCreds = TRUE
    /\ devices = EmptyDict
    /\ tree = <<>>
    /\ op = NoCall
    /\ scanned = <<>>
    /\ attempts = <<>>
    /\ reqRet = "running"

\* requests.get is called again only while the loop has neither returned nor raised.
Attempt ==
    /\ reqRet = "running"
    /\ \E o \in Outcomes :
        /\ attempts' = Append(attempts, o)
        /\ reqRet' = RequestLoop(attempts', 0).ret
    /\ UNCHANGED <<client, cookie, emptyCreds, devices, tree, op, scanned>>

NextRetry == Attempt

SpecRetry == InitRetry /\ [][NextRetry]_vars

-----------------------------------------------------------------------------
(* The claims *)

DataUrl == base_url \o <<"Data">>

\* The last call was a scan that returned.
ScanCompleted ==
    \/ op.name = "update_devices" /\ op.exc = ""
    \/ op.name = "__init__" /\ client = "alive" /\ scanned # <<>>

\* The data channels of base id b that the scan registers: command class 48,
\* 49 or 50 and an all-digit data index.
Matching(b) ==
    {ch \in Channels(tree) :
        /\ ch.base = b
        /\ ch.cc \in {<<"4", "8">>, <<"4", "9">>, <<"5", "0">>}
        /\ ch.key # <<>>
        /\ \A i \in 1..Len(ch.key) : ch.key[i] \in DigitSet}

BaseIds == {tree[b].id : b \in 1..Len(tree)}

\* C1: one request() call whose attempts fail only with connection errors or
\* timeouts makes at most 10 attempts and none after a success, returns the
\* first success, raises the timeout error after 10 attempts that all timed
\* out and the connection-lost error after 10 that all failed to connect, and
\* never returns without a response.
C1_RetryContract ==
    LET n == Len(attempts)
        succeeded == \E k \in 1..n : attempts[k] = "ok"
    IN /\ n <= 10
       /\ reqRet # "None"
       /\ reqRet = "page" => succeeded
       /\ succeeded => /\ reqRet = "page"
                       /\ attempts[n] = "ok"
                       /\ \A k \in 1..(n - 1) : attempts[k] # "ok"
       /\ (n = 10 /\ \A k \in 1..n : attempts[k] \in {"ReadTimeout", "ConnectTimeout"})
             => reqRet = "server Timeout"
       /\ (n = 10 /\ \A k \in 1..n : attempts[k] = "ConnectionError")
             => reqRet = "server did not respond, connection is lost"

\* C2: after a scan_devices() that raised, the registry is the one that
\* existed before the scan started.
C2_FailedScanKeepsRegistry ==
    (op.name = "update_devices" /\ op.exc # "") => devices = op.pre

\* C3: a failed construction reports the unreachable cause whenever the host is
\* unreachable, the authentication cause when the connectivity check's answer
\* is not JSON, the generic cause only otherwise, and produces no registry.
C3_ConstructionCauses ==
    (op.name = "__init__" /\ client = "failed") =>
        /\ op.arg.host = "unreachable"
              => op.exc = "Connection could not be established: destination host unreachable"
        /\ (op.arg.answered /\ ~op.arg.jsonOk)
              => op.exc = "Connection could not be established: authentication required"
        /\ op.exc = "Connection could not be established"
              => (op.arg.host = "up" /\ ~(op.arg.answered /\ ~op.arg.jsonOk))
        /\ devices = EmptyDict

\* C4: after a completed scan every registry key is "<base_id>.<n>" with base_id
\* a base id of the tree, and for each base id the n present are exactly
\* 0 .. k-1, one key each, k being the number of matching data channels of
\* that base id over all its instances and command classes.
C4_ContiguousIds ==
    ScanCompleted =>
        /\ \A id \in DOMAIN devices :
              /\ IntPart(id) \in BaseIds
              /\ DotAt(id) <= Len(id)
              /\ isdigit(FracPart(id))
              /\ FracPart(id) = Str(DigitsVal(FracPart(id)))
        /\ \A b \in BaseIds :
              /\ {DigitsVal(FracPart(id)) : id \in {x \in DOMAIN devices : IntPart(x) = b}}
                    = 0..(Cardinality(Matching(b)) - 1)
              /\ Cardinality({x \in DOMAIN devices : IntPart(x) = b})
                    = Cardinality(Matching(b))

\* A completed scan gave sequence number 1 to a channel of a second instance.
C4_Witness ==
    /\ ScanCompleted
    /\ \E id \in DOMAIN devices :
          /\ FracPart(id) = <<"1">>
          /\ devices[id].data.instance_num = <<"1">>

\* C5: list_device_ids() returns every registry key exactly once, in
\* non-decreasing order of the numeric value of the whole identifier, sends no
\* request and leaves the registry as it was.
C5_SortedIds ==
    op.name = "device_IDs" =>
        /\ op.exc = ""
        /\ Len(op.ret) = Cardinality(DOMAIN devices)
        /\ {op.ret[i] : i \in 1..Len(op.ret)} = DOMAIN devices
        /\ \A i, j \in 1..Len(op.ret) :
              i < j => float(op.ret[i]).num * float(op.ret[j]).den
                          <= float(op.ret[j]).num * float(op.ret[i]).den
        /\ op.sent = <<>>
        /\ devices = op.pre

\* "48.10" returned before "48.2".
C5_Witness ==
    /\ op.name = "device_IDs"
    /\ op.ret = << <<"4", "8", ".", "1", "0">>, <<"4", "8", ".", "2">> >>

\* C6: a completed scan_devices() leaves no identifier of the registry it found
\* unless the tree produces it, and yields the registry of the completed scan
\* before it (the tree being the same), whatever the registry was in between.
C6_ScanReplaces ==
    (op.name = "update_devices" /\ op.exc = "") =>
        /\ \A id \in DOMAIN op.pre \cap DOMAIN devices :
              /\ IntPart(id) \in BaseIds
              /\ DigitsVal(FracPart(id)) < Cardinality(Matching(IntPart(id)))
        /\ op.prevScan # <<>> => devices = op.prevScan[1]
        /\ scanned = <<devices>>

\* A completed rescan of a registry that held other identifiers.
C6_Witness ==
    /\ op.name = "update_devices"
    /\ op.exc = ""
    /\ devices # EmptyDict
    /\ \E id \in DOMAIN op.pre : id \notin DOMAIN devices

\* C7: get_software_version() makes one request, of the URL base_url + "Data".
C7_SoftwareVersionUrl ==
    op.name = "software_version" =>
        /\ Len(op.sent) = 1
        /\ op.sent[1].method = "GET"
        /\ op.sent[1].url = DataUrl

\* C8: get_value(device_id) of an id that is no key of the registry raises the
\* lookup error, sends no request and changes neither registry nor session.
C8_UnknownIdLookupError ==
    (op.name = "get_data" /\ op.arg \notin DOMAIN op.pre) =>
        /\ op.exc = "KeyError"
        /\ op.sent = <<>>
        /\ devices = op.pre
        /\ cookie = op.cookie0

\* get_value of an unknown id on a client whose registry is not empty.
C8_Witness ==
    /\ op.name = "get_data"
    /\ op.arg \notin DOMAIN op.pre
    /\ op.pre # EmptyDict

\* C9: construction with empty username and password sends no login request,
\* its first request is the GET of "Data", the session is none and every later
\* GET goes without cookies; construction with other credentials sends exactly
\* one login request, first; no later call changes the session.
C9_EmptyCredentialsNoLogin ==
    /\ (op.name = "__init__" /\ op.arg.username # "nonempty" /\ op.arg.password # "nonempty")
          => /\ \A i \in 1..Len(op.sent) : op.sent[i].method = "GET"
             /\ op.sent # <<>> /\ op.sent[1].url = DataUrl
    /\ (client = "alive" /\ emptyCreds)
          => /\ cookie = "None"
             /\ \A i \in 1..Len(op.sent) : op.sent[i].method = "GET" /\ ~op.sent[i].cookies
    /\ (op.name = "__init__" /\ ~(op.arg.username # "nonempty" /\ op.arg.password # "nonempty"))
          => /\ op.sent # <<>> /\ op.sent[1].method = "POST"
             /\ \A i \in 2..Len(op.sent) : op.sent[i].method = "GET"
    /\ op.name \notin {"", "__init__"} => cookie = op.cookie0

\* C10: after a completed scan every registry entry has its coordinates and a
\* name, and the entries are those of the matching channels whose name could
\* be built: a channel whose name construction failed is not in the registry.
C10_UnnamedEntrySkipped ==
    ScanCompleted =>
        /\ \A id \in DOMAIN devices :
              {"data", "name"} \subseteq DOMAIN devices[id]
        /\ Cardinality(DOMAIN devices)
              = Cardinality({ch \in UNION {Matching(b) : b \in BaseIds} :
                                \A i \in 1..Len(ch.sensorTypeString) :
                                    ch.sensorTypeString[i] # "\\xff"})

====
